---- MODULE Spec2Model ----
(***************************************************************************)
(* LTest: the sequential test-execution engine of src/TestSuite.h.         *)
(*                                                                         *)
(* The model covers SequentialTestSpec (registration of the case chain),   *)
(* TestCaseLinkedHead (the completion notifier done()/fail()),             *)
(* SequentialTestRunnableContainer (start(), the scheduling loop, the      *)
(* beginRun()/endRun() brackets) and MonitorThread (the watchdog).         *)
(*                                                                         *)
(* Threads: the thread that wins std::call_once in start() runs the        *)
(* scheduling loop; the watchdog thread runs the MonitorThread body; one   *)
(* further thread ("ext") invokes the notifier of asynchronous cases from  *)
(* outside the loop thread.  Statements of different threads interleave.   *)
(***************************************************************************)
EXTENDS Integers, Sequences, FiniteSets

\* ---------------------------------------------------------------- bounds
MaxCases == 2          \* longest case chain registered with it()
MaxStartCalls == 2     \* calls of start() that are followed
MaxDupSignals == 1     \* notifier invocations beyond the first one of a case
ChainLen == 3          \* cases main() registers before it calls start()

\* ------------------------------------------------------------- constants
Half == 65536          \* 2^16: a std::uint32_t value is kept as two 16-bit halves
NULL == 0              \* nullptr: an empty slot, an empty link
SPEC == -1             \* the SequentialTestSpec runnable (cases are 1..N)

\* Threads that may call start(): the thread of main(), which makes the
\* first call, and one other thread.
Callers == {"main", "aux"}
SigThreads == {"loop", "ext"}    \* threads that may execute done()/fail()

\* The two overloads of _it(): a body taking no argument (synchronous) and a
\* body taking the notifier (asynchronous).
Kinds == {"sync", "async"}

VARIABLES
    \* SequentialTestSpec
    caseKind,            \* TestCase nodes in allocation order: the body's shape
    caseNext,            \* TestCase::next of each node (NULL or a node)
    tail,                \* _tail
    specTotalCaseCount,  \* SequentialTestSpec::_totalCaseCount
    itResult,            \* outcome of the latest it(): "none", "ok", "thrown"
    \* TestCaseLinkedHead
    container,           \* _container != nullptr
    currentCase,         \* _currentCase
    headTotalCaseCount,  \* TestCaseLinkedHead::_totalCaseCount
    succeededCaseCount,  \* _succeededCaseCount
    \* SequentialTestRunnableContainer
    called,              \* std::once_flag _called: "fresh", "active", "done"
    aboutToRun,          \* _aboutToRun (the pending slot)
    running,             \* _running (the active slot)
    \* MonitorThread
    isIdle,              \* _isIdle
    needToShutdown,      \* _needToShutdown
    isTimeout,           \* isTimeout
    timedMutex,          \* _timedMutex: "free", "run" (held since beginRun), "wd"
    activationMutex,     \* _activationMutex: "free", "locked"
    wpc,                 \* position of the watchdog thread
    \* threads
    tpc,                 \* per caller of start(): "out", "blocked", "in"
    lpc,                 \* position of the thread inside the call_once lambda
    runThis,             \* the runnable whose run() the loop thread executes
    sig,                 \* per thread: the done()/fail() call it is executing
    aborted,             \* "no", "terminate" (std::terminate), "segv"
    \* observable output and the environment's history
    out,                 \* lines written to std::cout
    ran,                 \* case bodies entered, in order, and what each did
    signalled,           \* per case: 1 once its completion signal was invoked
    dupSignals,          \* notifier invocations beyond the one of each case
    probed,              \* cases before whose completion signal a probe failed
    probedLate,          \* cases with a probe failure after their signal, before their report
    startCalls,          \* start() calls made so far
    loopEntries,         \* times startTheLoop() was entered
    monitorsCreated      \* times MonitorThread::New() was entered

specVars == <<caseKind, caseNext, tail, specTotalCaseCount, itResult>>
headVars == <<container, currentCase, headTotalCaseCount, succeededCaseCount>>
slotVars == <<called, aboutToRun, running>>
monVars == <<isIdle, needToShutdown, isTimeout, timedMutex, activationMutex, wpc>>
thrVars == <<tpc, lpc, runThis, sig, aborted>>
histVars == <<out, ran, signalled, dupSignals, probed, probedLate, startCalls, loopEntries, monitorsCreated>>
vars == <<specVars, headVars, slotVars, monVars, thrVars, histVars>>

\* A thread's done()/fail() call: its position, which of the two it is, the
\* locals next and allFinished, and whether the invocation is a repeated one.
NoSig == [pc |-> "idle", kind |-> "done", next |-> NULL, allFinished |-> FALSE,
          again |-> FALSE]

\* a - b in std::uint32_t arithmetic, for a, b below 2^31: the difference
\* modulo 2^32 as its high and low 16-bit halves (2^32 itself exceeds the
\* model checker's integers).
Sub32(a, b) ==
    LET d == a - b IN
    IF d >= 0
      THEN [hi |-> d \div Half, lo |-> d % Half]
      ELSE [hi |-> (Half - 1) - (((-d) - 1) \div Half), lo |-> (Half - ((-d) % Half)) % Half]

CaseLine(c, res, to) ==
    [line |-> "case", case |-> c, res |-> res, timeout |-> to,
     total |-> 0, pass |-> 0, fail |-> Sub32(0, 0)]

\* outputWhenAllFinished(): total, pass, fail = total - pass (unsigned).
SummaryLine(t, p) ==
    [line |-> "summary", case |-> NULL, res |-> "none", timeout |-> FALSE,
     total |-> t, pass |-> p, fail |-> Sub32(t, p)]

Alive == aborted = "no"

Init ==
    /\ caseKind = <<>> /\ caseNext = <<>> /\ tail = NULL
    /\ specTotalCaseCount = 0 /\ itResult = "none"
    /\ container = FALSE /\ currentCase = NULL
    /\ headTotalCaseCount = 0 /\ succeededCaseCount = 0
    /\ called = "fresh" /\ aboutToRun = NULL /\ running = NULL
    /\ isIdle = FALSE /\ needToShutdown = FALSE /\ isTimeout = FALSE
    /\ timedMutex = "free" /\ activationMutex = "free" /\ wpc = "none"
    /\ tpc = [t \in Callers |-> "out"] /\ lpc = "none" /\ runThis = NULL
    /\ sig = [t \in SigThreads |-> NoSig] /\ aborted = "no"
    /\ out = <<>> /\ ran = <<>> /\ signalled = <<>> /\ dupSignals = 0 /\ probed = {} /\ probedLate = {}
    /\ startCalls = 0 /\ loopEntries = 0 /\ monitorsCreated = 0

\* ------------------------------------------------- SequentialTestSpec::it
\* (mutant: the guard of _it() is missing)
IsRunningNever == FALSE

\* TestCaseLinkedHead::isRunning(): _container is set.
IsRunning == container

\* append(): link behind the tail, or make the node the head's current case.
AppendCase(kind) ==
    LET node == Len(caseKind) + 1 IN
    /\ caseKind' = Append(caseKind, kind)
    /\ caseNext' = IF tail # NULL
                     THEN [Append(caseNext, NULL) EXCEPT ![tail] = node]
                     ELSE Append(caseNext, NULL)
    /\ currentCase' = IF tail # NULL THEN currentCase ELSE node
    /\ tail' = node
    /\ signalled' = Append(signalled, 0)

\* ++_totalCaseCount (far below 2^32 within MaxCases).
IncCaseCount == specTotalCaseCount' = specTotalCaseCount + 1

It(kind) ==
    /\ Alive
    /\ IF IsRunning
         THEN /\ itResult' = "thrown"
              /\ UNCHANGED <<caseKind, caseNext, tail, specTotalCaseCount,
                             currentCase, signalled>>
         ELSE /\ Len(caseKind) < MaxCases
              /\ AppendCase(kind)
              /\ IncCaseCount
              /\ itResult' = "ok"
    /\ UNCHANGED <<container, headTotalCaseCount, succeededCaseCount, slotVars,
                   monVars, thrVars, out, ran, probed, probedLate, dupSignals, startCalls,
                   loopEntries, monitorsCreated>>

Register == \E kind \in Kinds : It(kind)

\* main(): container->scheduleToRun(spec), once, while the loop has not run
\* (before start(), or after a start() that found nothing pending).
ScheduleSpec ==
    /\ Alive
    /\ called # "active" /\ lpc = "none"
    /\ aboutToRun = NULL
    /\ aboutToRun' = SPEC
    /\ UNCHANGED <<specVars, headVars, called, running, monVars, thrVars, histVars>>


\* ------------------------------ SequentialTestRunnableContainer::start
\* std::call_once(_called, ...): the first caller runs the lambda, callers
\* arriving while it runs block until it returns, later callers return at
\* once.  The lambda does nothing when no runnable is pending.
\* (mutant: the once flag is not consulted after a call has returned)
StartEntersAgain == called # "active"

StartEnters == called = "fresh"

Start(t) ==
    /\ Alive
    /\ tpc[t] = "out"
    /\ (called = "fresh" => t = "main")
    /\ startCalls < MaxStartCalls
    /\ startCalls' = startCalls + 1
    /\ IF StartEnters
         THEN IF aboutToRun # NULL
                THEN /\ called' = "active"
                     /\ tpc' = [tpc EXCEPT ![t] = "in"]
                     /\ lpc' = "new"
                ELSE /\ called' = "done"
                     /\ UNCHANGED <<tpc, lpc>>
         ELSE /\ tpc' = [tpc EXCEPT ![t] = IF called = "active" THEN "blocked" ELSE "out"]
              /\ UNCHANGED <<called, lpc>>
    /\ UNCHANGED <<specVars, headVars, aboutToRun, running, monVars, runThis, sig,
                   aborted, out, ran, signalled, probed, probedLate, dupSignals, loopEntries, monitorsCreated>>

\* A caller blocked in call_once returns once the active call has returned.
StartReturns(t) ==
    /\ Alive
    /\ tpc[t] = "blocked"
    /\ called = "done"
    /\ tpc' = [tpc EXCEPT ![t] = "out"]
    /\ UNCHANGED <<specVars, headVars, slotVars, monVars, lpc, runThis, sig, aborted,
                   histVars>>

\* ------------------------------------------------- MonitorThread::New
\* make_unique<MonitorThread>(): the constructor initialises _thread only;
\* the three std::atomic<bool> members are left uninitialised, so each
\* holds either value.  The constructor spawns the watchdog thread.
MonitorConstruct ==
    /\ Alive
    /\ lpc = "new"
    /\ \E i \in BOOLEAN, s \in BOOLEAN, t \in BOOLEAN :
          /\ isIdle' = i /\ needToShutdown' = s /\ isTimeout' = t
    /\ wpc' = "spawned"
    /\ monitorsCreated' = monitorsCreated + 1
    /\ lpc' = "activate"
    /\ UNCHANGED <<specVars, headVars, slotVars, timedMutex, activationMutex, tpc,
                   runThis, sig, aborted, out, ran, signalled, probed, probedLate, dupSignals, startCalls,
                   loopEntries>>

\* New(): _activationMutex.try_lock_for(1s).  Nothing locks the mutex
\* beforehand, so the attempt succeeds whether or not the watchdog thread
\* has run; start() then enters startTheLoop().
MonitorNewLock ==
    /\ Alive
    /\ lpc = "activate"
    /\ activationMutex = "free"
    /\ activationMutex' = "locked"
    /\ lpc' = "loop"
    /\ loopEntries' = loopEntries + 1
    /\ UNCHANGED <<specVars, headVars, slotVars, isIdle, needToShutdown, isTimeout,
                   timedMutex, wpc, tpc, runThis, sig, aborted, out, ran, signalled,
                   probed, probedLate, dupSignals, startCalls, monitorsCreated>>

\* ------------------------------------------------------- startTheLoop
\* Both slots empty: break; the lambda and call_once return.
\* (mutant: the loop ends as soon as nothing is pending)
LoopMayExitWhileActive == aboutToRun = NULL

LoopMayExit == aboutToRun = NULL /\ running = NULL

LoopExit ==
    /\ Alive
    /\ lpc = "loop"
    /\ LoopMayExit
    /\ lpc' = "exited"
    /\ called' = "done"
    /\ tpc' = [t \in Callers |-> IF tpc[t] = "in" THEN "out" ELSE tpc[t]]
    /\ UNCHANGED <<specVars, headVars, aboutToRun, running, monVars, runThis, sig,
                   aborted, histVars>>

\* Pending and nothing active: reset isTimeout, move pending into active, run it.
LoopMayPromote == aboutToRun # NULL /\ running = NULL

LoopPromote ==
    /\ Alive
    /\ lpc = "loop"
    /\ LoopMayPromote
    /\ isTimeout' = FALSE
    /\ running' = aboutToRun
    /\ aboutToRun' = NULL
    /\ runThis' = aboutToRun
    /\ lpc' = "begin"
    /\ UNCHANGED <<specVars, headVars, called, isIdle, needToShutdown, timedMutex,
                   activationMutex, wpc, tpc, sig, aborted, histVars>>

\* beginRun() -> notifyBeginRun(): _timedMutex.lock(); _isIdle = false.
BeginRun ==
    /\ Alive
    /\ lpc = "begin"
    /\ timedMutex = "free"
    /\ timedMutex' = "run"
    /\ isIdle' = FALSE
    /\ lpc' = IF runThis = SPEC THEN "letItRun" ELSE "body"
    /\ UNCHANGED <<specVars, headVars, slotVars, needToShutdown, isTimeout,
                   activationMutex, wpc, tpc, runThis, sig, aborted, histVars>>

\* endRun(): notifyEndRun() (_isIdle = true; _timedMutex.unlock()), then
\* _running = nullptr.
EndRun ==
    /\ isIdle' = TRUE
    /\ timedMutex' = "free"
    /\ running' = NULL

\* SequentialTestSpec::run: letItRun(_totalCaseCount, container).
LetItRun ==
    /\ Alive
    /\ lpc = "letItRun"
    /\ container' = TRUE
    /\ headTotalCaseCount' = specTotalCaseCount
    /\ aboutToRun' = IF currentCase # NULL THEN currentCase ELSE aboutToRun
    /\ lpc' = "specEnd"
    /\ UNCHANGED <<specVars, currentCase, succeededCaseCount, called, running, monVars,
                   tpc, runThis, sig, aborted, histVars>>

\* SequentialTestSpec::run: container.endRun(), and run() returns.
SpecEndRun ==
    /\ Alive
    /\ lpc = "specEnd"
    /\ EndRun
    /\ lpc' = "loop"
    /\ runThis' = NULL
    /\ UNCHANGED <<specVars, headVars, called, aboutToRun, needToShutdown, isTimeout,
                   activationMutex, wpc, tpc, sig, aborted, histVars>>


\* ----------------------------------------- TestCaseRunnable::run, bodies
IsCase(r) == r \in 1..Len(caseKind)

\* What a body did: [case, how], how being "returns" or "throws" for a
\* synchronous body and "inline" (called done() itself), "deferred" (handed
\* the notifier on and returned) or "raises" for an asynchronous one.
Entered(c, how) == ran' = Append(ran, [case |-> c, how |-> how])

\* The signal the synchronous wrapper of _it() sends: done() when the body
\* returns, fail() from catch (...) when it raises.
WrapperSignal(how) == IF how = "returns" THEN "done" ELSE "fail"

EnterSignal(th, k, again) ==
    sig' = [sig EXCEPT ![th] = [NoSig EXCEPT !.pc = "schedule", !.kind = k,
                                             !.again = again]]

CountSignal(c) == signalled' = [signalled EXCEPT ![c] = @ + 1]

\* Synchronous case: behaviour() runs, then the wrapper calls the notifier.
SyncBody(how) ==
    /\ Alive
    /\ lpc = "body"
    /\ caseKind[runThis] = "sync"
    /\ Entered(runThis, how)
    /\ EnterSignal("loop", WrapperSignal(how), FALSE)
    /\ CountSignal(runThis)
    /\ lpc' = "signal"
    /\ UNCHANGED <<specVars, headVars, slotVars, monVars, tpc, runThis, aborted, out,
                   probed, probedLate, dupSignals, startCalls, loopEntries, monitorsCreated>>

\* Asynchronous case whose body calls notifier->done() before it returns.
AsyncInlineBody ==
    /\ Alive
    /\ lpc = "body"
    /\ caseKind[runThis] = "async"
    /\ Entered(runThis, "inline")
    /\ EnterSignal("loop", "done", FALSE)
    /\ CountSignal(runThis)
    /\ lpc' = "signal"
    /\ UNCHANGED <<specVars, headVars, slotVars, monVars, tpc, runThis, aborted, out,
                   probed, probedLate, dupSignals, startCalls, loopEntries, monitorsCreated>>

\* Asynchronous case whose body hands the notifier to another thread.
AsyncDeferredBody ==
    /\ Alive
    /\ lpc = "body"
    /\ caseKind[runThis] = "async"
    /\ Entered(runThis, "deferred")
    /\ lpc' = "inbody"
    /\ UNCHANGED <<specVars, headVars, slotVars, monVars, tpc, runThis, sig, aborted,
                   out, signalled, probed, probedLate, dupSignals, startCalls, loopEntries,
                   monitorsCreated>>

\* ... and returns without signalling: run() returns to the loop.
AsyncBodyReturn ==
    /\ Alive
    /\ lpc = "inbody"
    /\ lpc' = "loop"
    /\ runThis' = NULL
    /\ UNCHANGED <<specVars, headVars, slotVars, monVars, tpc, sig, aborted, histVars>>

\* Asynchronous case whose body raises: std::bind(verifyBehaviour, _head)
\* has no try/catch, the exception leaves run(), which is noexcept, and
\* std::terminate() ends the process.
AsyncRaise == aborted' = "terminate"

AsyncThrowBody ==
    /\ Alive
    /\ lpc = "body"
    /\ caseKind[runThis] = "async"
    /\ Entered(runThis, "raises")
    /\ AsyncRaise
    /\ UNCHANGED <<specVars, headVars, slotVars, monVars, tpc, lpc, runThis, sig, out,
                   signalled, probed, probedLate, dupSignals, startCalls, loopEntries,
                   monitorsCreated>>

\* ------------------------------------- the notifier from another thread
HasRun(c) == \E j \in 1..Len(ran) : ran[j].case = c


IsAsync(c) == caseKind[c] = "async"

\* The thread a deferred body handed the notifier to calls done() or fail().
ExtSignal(c, k) ==
    /\ Alive
    /\ sig["ext"].pc = "idle"
    /\ \E j \in 1..Len(ran) : ran[j] = [case |-> c, how |-> "deferred"]
    /\ signalled[c] = 0
    /\ EnterSignal("ext", k, FALSE)
    /\ CountSignal(c)
    /\ UNCHANGED <<specVars, headVars, slotVars, monVars, tpc, lpc, runThis, aborted,
                   out, ran, probed, probedLate, dupSignals, startCalls, loopEntries, monitorsCreated>>

\* A holder of the notifier of an asynchronous case that has already been
\* signalled invokes it once more (the notifier is the shared chain head).
NotifierUsed == \E c \in 1..Len(caseKind) : HasRun(c) /\ IsAsync(c) /\ signalled[c] > 0

ExtSignalAgain(k) ==
    /\ Alive
    /\ sig["ext"].pc = "idle"
    /\ NotifierUsed
    /\ dupSignals < MaxDupSignals
    /\ dupSignals' = dupSignals + 1
    /\ EnterSignal("ext", k, TRUE)
    /\ UNCHANGED <<specVars, headVars, slotVars, monVars, tpc, lpc, runThis, aborted,
                   out, ran, signalled, probed, probedLate, startCalls, loopEntries,
                   monitorsCreated>>

\* ---------------------------------- TestCaseLinkedHead::done / fail
\* A null _currentCase is dereferenced by _currentCase->next and by
\* _currentCase->should: the process dies on the access.
Crash == /\ aborted' = "segv"
         /\ UNCHANGED <<specVars, headVars, slotVars, monVars, tpc, lpc, runThis, sig,
                        histVars>>

\* (mutant: the link to the following case is never followed)
NextCaseNone(c) == NULL

\* TestCase::next of a node.
NextCase(c) == caseNext[c]

\* next = _currentCase->next; if (next) scheduleToRun(TestCaseRunnable(next)).
SigSchedule(th) ==
    /\ Alive
    /\ sig[th].pc = "schedule"
    /\ IF currentCase = NULL
         THEN Crash
         ELSE LET next == NextCase(currentCase) IN
              /\ aboutToRun' = IF next # NULL THEN next ELSE aboutToRun
              /\ sig' = [sig EXCEPT ![th].pc = "report", ![th].next = next,
                                    ![th].allFinished = (next = NULL)]
              /\ UNCHANGED <<specVars, headVars, called, running, monVars, tpc, lpc,
                             runThis, aborted, histVars>>

\* The report line: done() prints the check mark and, when isTimeout() holds,
\* "(timeout)"; fail() prints the cross mark and never consults isTimeout().
Annotated(kind) == IF kind = "done" THEN isTimeout ELSE FALSE

Outcome(kind) == IF kind = "done" THEN "pass" ELSE "fail"

SigReport(th) ==
    /\ Alive
    /\ sig[th].pc = "report"
    /\ IF currentCase = NULL
         THEN Crash
         ELSE /\ out' = Append(out, CaseLine(currentCase, Outcome(sig[th].kind),
                                             Annotated(sig[th].kind)))
              /\ sig' = [sig EXCEPT ![th].pc = "advance"]
              /\ UNCHANGED <<specVars, headVars, slotVars, monVars, tpc, lpc, runThis,
                             aborted, ran, signalled, probed, probedLate, dupSignals, startCalls, loopEntries,
                             monitorsCreated>>

\* done(): ++_succeededCaseCount; both: _currentCase = next.
Succeeded(kind) ==
    IF kind = "done" THEN succeededCaseCount + 1 ELSE succeededCaseCount

\* (mutant: the head is not moved on to the following case)
AdvancedStays(th) == currentCase

\* _currentCase = next, the local read at the start of the call.
Advanced(th) == sig[th].next

SigAdvance(th) ==
    /\ Alive
    /\ sig[th].pc = "advance"
    /\ succeededCaseCount' = Succeeded(sig[th].kind)
    /\ currentCase' = Advanced(th)
    /\ sig' = [sig EXCEPT ![th].pc = IF sig[th].allFinished THEN "summary" ELSE "endRun"]
    /\ UNCHANGED <<specVars, container, headTotalCaseCount, slotVars, monVars, tpc, lpc,
                   runThis, aborted, histVars>>

\* if (allFinished) outputWhenAllFinished().
SigSummary(th) ==
    /\ Alive
    /\ sig[th].pc = "summary"
    /\ out' = Append(out, SummaryLine(headTotalCaseCount, succeededCaseCount))
    /\ sig' = [sig EXCEPT ![th].pc = "endRun"]
    /\ UNCHANGED <<specVars, headVars, slotVars, monVars, tpc, lpc, runThis, aborted,
                   ran, signalled, probed, probedLate, dupSignals, startCalls, loopEntries, monitorsCreated>>

\* _container->endRun(); the call returns.  On the loop thread the body,
\* the wrapper and run() return with it.
SigEndRun(th) ==
    /\ Alive
    /\ sig[th].pc = "endRun"
    /\ EndRun
    /\ sig' = [sig EXCEPT ![th] = NoSig]
    /\ IF th = "loop"
         THEN lpc' = "loop" /\ runThis' = NULL
         ELSE UNCHANGED <<lpc, runThis>>
    /\ UNCHANGED <<specVars, headVars, called, aboutToRun, needToShutdown, isTimeout,
                   activationMutex, wpc, tpc, aborted, histVars>>

\* ------------------------------------------- MonitorThread thread body
\* _activationMutex.unlock(): the activation step.
WdActivate ==
    /\ Alive
    /\ wpc = "spawned"
    /\ activationMutex' = "free"
    /\ wpc' = "top"
    /\ UNCHANGED <<specVars, headVars, slotVars, isIdle, needToShutdown, isTimeout,
                   timedMutex, thrVars, histVars>>

\* while (!_needToShutdown): the thread ends when the flag reads true.
WdShutdown ==
    /\ Alive
    /\ wpc = "top"
    /\ needToShutdown
    /\ wpc' = "exited"
    /\ UNCHANGED <<specVars, headVars, slotVars, isIdle, needToShutdown, isTimeout,
                   timedMutex, activationMutex, thrVars, histVars>>

\* if (_isIdle) { yield; continue; } leaves the state alone; otherwise probe.
WdProbeStart ==
    /\ Alive
    /\ wpc = "top"
    /\ ~needToShutdown
    /\ ~isIdle
    /\ wpc' = "probe"
    /\ UNCHANGED <<specVars, headVars, slotVars, isIdle, needToShutdown, isTimeout,
                   timedMutex, activationMutex, thrVars, histVars>>

\* timedLock.try_lock_for(500ms) succeeds: the mutex was released in time.
WdProbeOk ==
    /\ Alive
    /\ wpc = "probe"
    /\ timedMutex = "free"
    /\ timedMutex' = "wd"
    /\ wpc' = "holding"
    /\ UNCHANGED <<specVars, headVars, slotVars, isIdle, needToShutdown, isTimeout,
                   activationMutex, thrVars, histVars>>

\* The unique_lock leaves scope at the end of the iteration.
WdRelease ==
    /\ Alive
    /\ wpc = "holding"
    /\ timedMutex' = "free"
    /\ wpc' = "top"
    /\ UNCHANGED <<specVars, headVars, slotVars, isIdle, needToShutdown, isTimeout,
                   activationMutex, thrVars, histVars>>

\* The case whose execution a step of the watchdog falls into: the case in
\* the active slot, unless its report line is already written.
Reported(c) == \E j \in 1..Len(out) : out[j].line = "case" /\ out[j].case = c

Executing == IF IsCase(running) /\ ~Reported(running) THEN {running} ELSE {}

\* try_lock_for(500ms) fails: the mutex stayed held for the whole bound.
ProbeFails == timedMutex # "free"

WdProbeFail ==
    /\ Alive
    /\ wpc = "probe"
    /\ ProbeFails
    /\ probed' = probed \cup {c \in Executing : signalled[c] = 0}
    /\ probedLate' = probedLate \cup {c \in Executing : signalled[c] > 0}
    /\ wpc' = "timedout"
    /\ UNCHANGED <<specVars, headVars, slotVars, isIdle, needToShutdown, isTimeout,
                   timedMutex, activationMutex, thrVars, out, ran, signalled,
                   dupSignals, startCalls, loopEntries, monitorsCreated>>

\* isTimeout = true;
WdSetTimeout ==
    /\ Alive
    /\ wpc = "timedout"
    /\ isTimeout' = TRUE
    /\ wpc' = "setidle"
    /\ UNCHANGED <<specVars, headVars, slotVars, isIdle, needToShutdown, timedMutex,
                   activationMutex, thrVars, out, ran, signalled, probed, probedLate, dupSignals, startCalls,
                   loopEntries, monitorsCreated>>

\* (mutant: on a timeout the watchdog ends the run as endRun() does)
IdleAfterTimeoutEndsRun == EndRun

\* _isIdle = true; the timing mutex and the active slot are left alone.
IdleAfterTimeout == isIdle' = TRUE /\ UNCHANGED <<timedMutex, running>>

WdSetIdle ==
    /\ Alive
    /\ wpc = "setidle"
    /\ IdleAfterTimeout
    /\ wpc' = "top"
    /\ UNCHANGED <<specVars, headVars, called, aboutToRun, needToShutdown, isTimeout,
                   activationMutex, thrVars, histVars>>

\* ------------------------------------------------------- specification
Watchdog ==
    \/ WdActivate \/ WdShutdown \/ WdProbeStart \/ WdProbeOk \/ WdRelease
    \/ WdProbeFail \/ WdSetTimeout \/ WdSetIdle

Signal(th) ==
    \/ SigSchedule(th) \/ SigReport(th) \/ SigAdvance(th) \/ SigSummary(th)
    \/ SigEndRun(th)

LoopThread ==
    \/ MonitorConstruct \/ MonitorNewLock \/ LoopExit \/ LoopPromote \/ BeginRun
    \/ LetItRun \/ SpecEndRun \/ (\E how \in {"returns", "throws"} : SyncBody(how))
    \/ AsyncInlineBody \/ AsyncDeferredBody
    \/ AsyncBodyReturn \/ AsyncThrowBody \/ Signal("loop")

ExtThread ==
    \/ \E c \in 1..Len(caseKind), k \in {"done", "fail"} : ExtSignal(c, k)
    \/ \E k \in {"done", "fail"} : ExtSignalAgain(k)
    \/ Signal("ext")

Client ==
    \/ Register
    \/ ScheduleSpec
    \/ \E t \in Callers : Start(t)
    \/ \E t \in Callers : StartReturns(t)

Next == Client \/ LoopThread \/ ExtThread \/ Watchdog

Spec == Init /\ [][Next]_vars

\* ------------------------------------------------ main() as a whole
\* main(): initSpec() registers the chain, scheduleToRun(spec) makes the
\* spec the pending runnable, start() is called once and nothing else
\* follows.  The chain is one of ChainLen asynchronous cases whose bodies
\* hand the notifier to another thread; MainInit is the state in which
\* main() calls start().
MainInit ==
    /\ caseKind = [c \in 1..ChainLen |-> "async"]
    /\ caseNext = [c \in 1..ChainLen |-> IF c < ChainLen THEN c + 1 ELSE NULL]
    /\ tail = ChainLen
    /\ specTotalCaseCount = ChainLen /\ itResult = "ok"
    /\ container = FALSE /\ currentCase = 1
    /\ headTotalCaseCount = 0 /\ succeededCaseCount = 0
    /\ called = "fresh" /\ aboutToRun = SPEC /\ running = NULL
    /\ isIdle = FALSE /\ needToShutdown = FALSE /\ isTimeout = FALSE
    /\ timedMutex = "free" /\ activationMutex = "free" /\ wpc = "none"
    /\ tpc = [t \in Callers |-> "out"] /\ lpc = "none" /\ runThis = NULL
    /\ sig = [t \in SigThreads |-> NoSig] /\ aborted = "no"
    /\ out = <<>> /\ ran = <<>> /\ signalled = [c \in 1..ChainLen |-> 0]
    /\ dupSignals = 0 /\ probed = {} /\ probedLate = {}
    /\ startCalls = 0 /\ loopEntries = 0 /\ monitorsCreated = 0

\* container->start(), the one call main() makes.
MainStart == called = "fresh" /\ Start("main")

MainNext ==
    \/ MainStart
    \/ MonitorConstruct \/ MonitorNewLock \/ LoopExit \/ LoopPromote \/ BeginRun
    \/ LetItRun \/ SpecEndRun
    \/ AsyncDeferredBody \/ AsyncBodyReturn \/ AsyncThrowBody
    \/ ExtThread
    \/ Watchdog

MainSpec == MainInit /\ [][MainNext]_vars


\* ==================================================================
\* Properties
\* ==================================================================
IsCaseLine(l) == l.line = "case"
IsSummaryLine(l) == l.line = "summary"
CaseLines == SelectSeq(out, IsCaseLine)
SummaryLines == SelectSeq(out, IsSummaryLine)
Cases == 1..Len(caseKind)

\* Every case body entered so far signals completion exactly once: no body
\* raised without signalling and the notifier was never invoked again.
OnceEach == dupSignals = 0 /\ \A j \in 1..Len(ran) : ran[j].how # "raises"

AllInvoked ==
    /\ container
    /\ Len(ran) >= Len(caseKind)
    /\ \A c \in Cases : HasRun(c) /\ signalled[c] >= 1

C2_ReachesExit == AllInvoked => aborted = "no"

\* C3: a synchronous case whose body returns is reported as passed, one
\* whose body raises as failed, by exactly one line; and once it is reported
\* its successor, if any, is pending, active or already entered.
LinesOf(c) == {j \in 1..Len(out) : out[j].line = "case" /\ out[j].case = c}

C3_SyncOutcome ==
    \A j \in 1..Len(ran) :
        LET c == ran[j].case IN
        ran[j].how \in {"returns", "throws"} =>
            /\ signalled[c] = 1
            /\ Cardinality(LinesOf(c)) <= 1
            /\ \A i \in LinesOf(c) :
                  out[i].res = (IF ran[j].how = "returns" THEN "pass" ELSE "fail")
            /\ (Reported(c) /\ caseNext[c] # NULL) =>
                  \/ aboutToRun = caseNext[c]
                  \/ running = caseNext[c]
                  \/ HasRun(caseNext[c])

\* C4: every summary shows total = N, succeeded = the number of cases that
\* ended with done(), failed = the number that ended with fail(), with
\* succeeded + failed = total and no unsigned wrap-around of total - succeeded.
PassedCases == {c \in Cases : \E i \in LinesOf(c) : out[i].res = "pass"}
FailedCases == {c \in Cases : \E i \in LinesOf(c) : out[i].res = "fail"}

C4_SummaryCounters ==
    \A j \in 1..Len(out) :
        out[j].line = "summary" =>
            /\ out[j].total = Len(caseKind)
            /\ out[j].pass <= out[j].total
            /\ out[j].fail.hi = 0
            /\ out[j].pass + out[j].fail.lo = out[j].total
            /\ out[j].pass = Cardinality(PassedCases)
            /\ out[j].fail.lo = Cardinality(FailedCases)

\* C5: a repeated invocation of done() or fail() leaves the chain head's
\* current case, the counters, the pending slot and the output unchanged.
C5_RepeatIsNoOp ==
    [][\A th \in SigThreads :
          (sig[th].again /\ sig'[th] # sig[th]) =>
              UNCHANGED <<currentCase, succeededCaseCount, headTotalCaseCount,
                          aboutToRun, out>>]_vars

\* C6: while an asynchronous case whose body returned without invoking the
\* notifier is waiting (it is in the active slot, it is the head's current
\* case, it is unreported) and no done()/fail() call is in progress, no step
\* of the loop, of the watchdog or of a client writes a report line, changes
\* the counters, the current case or the slots, exits the loop, or starts a
\* done()/fail() call on the loop thread.
Waiting(c) ==
    /\ \E j \in 1..Len(ran) : ran[j] = [case |-> c, how |-> "deferred"]
    /\ runThis # c
    /\ running = c
    /\ currentCase = c
    /\ ~Reported(c)

NoCallInProgress == \A th \in SigThreads : sig[th].pc = "idle"

C6_NoImplicitCompletion ==
    [][((\E c \in Cases : Waiting(c)) /\ NoCallInProgress) =>
          /\ UNCHANGED <<out, currentCase, succeededCaseCount, headTotalCaseCount,
                         aboutToRun, running>>
          /\ lpc' # "exited"
          /\ sig'["loop"] = sig["loop"]]_vars

C6_Witness ==
    /\ \E c \in Cases : Waiting(c) /\ c \in probed
    /\ NoCallInProgress
    /\ wpc = "top" /\ isIdle /\ isTimeout

\* C7: a case during whose execution a watchdog probe failed, before its
\* completion signal was invoked, and that is then reported by done(), has
\* the timeout annotation on its pass line.
PassLines == {j \in 1..Len(out) : out[j].line = "case" /\ out[j].res = "pass"}

C7_ProbeFailureAnnotated ==
    \A j \in PassLines : out[j].case \in probed => out[j].timeout

\* C8: once the chain has started executing (letItRun() has handed it to the
\* container), every it() is rejected with an error and leaves the chain, the
\* tail link and the registered-case count unchanged.
C8_LateItRejected ==
    [][((container \/ Len(ran) > 0) /\
        (itResult' # itResult \/ caseKind' # caseKind)) =>
          /\ itResult' = "thrown"
          /\ UNCHANGED <<caseKind, caseNext, tail, specTotalCaseCount, currentCase>>]_vars

C8_Witness == itResult = "thrown" /\ Len(caseKind) = MaxCases /\ lpc = "signal"

\* C9: the loop is entered at most once and the watchdog created at most
\* once; a start() call made after a call has completed changes neither slot,
\* nor the chain head, nor the position of the loop or of the watchdog; a
\* start() call made while nothing is pending starts neither.
C9_StartOnce ==
    [][/\ loopEntries' <= 1
       /\ monitorsCreated' <= 1
       /\ (startCalls' # startCalls /\ called = "done") =>
             UNCHANGED <<slotVars, headVars, lpc, wpc, loopEntries, monitorsCreated>>
       /\ (startCalls' # startCalls /\ aboutToRun = NULL) =>
             UNCHANGED <<aboutToRun, running, headVars, lpc, wpc, loopEntries,
                         monitorsCreated>>]_vars

C9_Witness ==
    /\ startCalls = MaxStartCalls
    /\ called = "done"
    /\ lpc = "exited"
    /\ loopEntries = 1 /\ monitorsCreated = 1

\* C10: an error raised by a case body, synchronous or asynchronous, becomes
\* one fail signal for that case and never aborts the process.
C10_ErrorContained ==
    \A j \in 1..Len(ran) :
        ran[j].how \in {"throws", "raises"} =>
            /\ aborted # "terminate"
            /\ signalled[ran[j].case] = 1

\* C11: a run that traversed its whole chain (the loop has exited after
\* letItRun() took the chain over) has written exactly one summary, as the
\* last line of the output, for every chain length including the empty
\* chain; and a done()/fail() call that found no next case has written the
\* summary before it calls endRun().
ChainTraversed == lpc = "exited" /\ container

C11_OneSummary ==
    /\ ChainTraversed =>
          /\ Len(SummaryLines) = 1
          /\ out[Len(out)].line = "summary"
    /\ \A th \in SigThreads :
          (sig[th].pc = "endRun" /\ sig[th].allFinished /\ ~sig[th].again) =>
              /\ Len(SummaryLines) >= 1
              /\ out[Len(out)].line = "summary"

\* C12: beginRun() and endRun() strictly alternate, starting with
\* beginRun(): beginRun() is executed only while no bracket is open, for the
\* runnable just promoted into the active slot; endRun() is executed only
\* while a bracket is open, closing the bracket of the runnable in the active
\* slot; and the loop exits with no bracket open.
BracketOpen == timedMutex = "run"

BeginRunStep == lpc = "begin" /\ lpc' # "begin"

EndRunStep ==
    \/ lpc = "specEnd" /\ lpc' = "loop"
    \/ \E th \in SigThreads : sig[th].pc = "endRun" /\ sig'[th].pc = "idle"

C12_BracketsAlternate ==
    [][/\ BeginRunStep => (~BracketOpen /\ running = runThis)
       /\ EndRunStep => (BracketOpen /\ running # NULL)
       /\ lpc' = "exited" => ~BracketOpen']_vars

\* C13: while the completion signal of the case in the active slot, invoked
\* on a thread other than the loop thread, is between its entry and its
\* return, the loop promotes nothing: a promotion happens only with the
\* active slot empty and with no such call in progress; and when that call
\* reaches endRun() the next case is already pending, the report line is
\* written and the head's current case is advanced.
PromoteStep == lpc = "loop" /\ lpc' = "begin"

FirstCallInProgress(th) == sig[th].pc # "idle" /\ ~sig[th].again

C13_PromoteAfterBookkeeping ==
    [][/\ PromoteStep => (running = NULL /\ ~FirstCallInProgress("ext"))
       /\ (FirstCallInProgress("ext") /\ sig["ext"].pc = "endRun") =>
             /\ aboutToRun = sig["ext"].next
             /\ currentCase = sig["ext"].next
             /\ Len(CaseLines) > 0
             /\ running # NULL]_vars

\* C14: from the entry into startTheLoop() until the loop's exit, the
\* pending slot and the active slot are both empty only after the last case
\* of the chain has completed (every registered case is reported).
InLoop == lpc \notin {"none", "new", "activate", "exited"}

LastCaseCompleted == container /\ \A c \in Cases : Reported(c)

C14_SlotsNotBothEmpty ==
    (InLoop /\ aboutToRun = NULL /\ running = NULL) => LastCaseCompleted

\* C15: the active slot is non-empty only while the run() call of the
\* runnable it holds is in progress on the loop thread; in particular it is
\* empty once the run() of an asynchronous case has returned.
RunInProgress(r) == runThis = r

C15_ActiveOnlyWhileRunning == running # NULL => RunInProgress(running)

\* C16: once the watchdog exists, its idle flag is false exactly between a
\* runnable's beginRun() and its endRun(), and true otherwise.
WatchdogExists == wpc # "none"

C16_IdleIffNotExecuting == WatchdogExists => (isIdle <=> ~BracketOpen)

\* C17: a case is reported with the timeout annotation only if a watchdog
\* probe failed during that case's own execution, that is after the flag
\* was reset at its promotion and before its report line was written.
ProbedDuring(c) == c \in probed \cup probedLate

C17_AnnotationHasOwnProbe ==
    \A j \in 1..Len(out) :
        (out[j].line = "case" /\ out[j].timeout) => ProbedDuring(out[j].case)

\* C18: the scheduling loop is entered, and a runnable promoted or run, only
\* after the watchdog thread's body has performed its activation step.
Activated == wpc \notin {"none", "spawned"}

C18_ActivatedBeforeLoop == (InLoop \/ lpc = "exited") => Activated

\* C19: every step of the watchdog thread leaves the pending slot, the
\* active slot, the chain head's current case, the counters, the output and
\* the positions of the other threads (the running case, a done()/fail()
\* call in progress) unchanged; the watchdog holds the timing mutex only
\* between a successful probe and the end of that loop iteration.
WatchdogStep == wpc # "none" /\ wpc' # wpc

C19_WatchdogFrame ==
    [][/\ WatchdogStep => UNCHANGED <<specVars, headVars, slotVars, thrVars, out>>
       /\ timedMutex' = "wd" => wpc' = "holding"]_vars

C19_Witness ==
    /\ wpc = "top" /\ isTimeout /\ isIdle
    /\ BracketOpen /\ IsCase(running) /\ lpc = "body"

\* C20: when done() or fail() writes the report line of a case during whose
\* execution a probe failed and the timeout flag is set, the line carries
\* the timeout annotation, for a pass as for a fail.
ReportStep(th) == sig[th].pc = "report" /\ sig'[th].pc = "advance"

C20_FlagShownOnEveryOutcome ==
    [][\A th \in SigThreads :
          (ReportStep(th) /\ isTimeout /\ ProbedDuring(currentCase)) =>
              out'[Len(out')].timeout]_vars

\* C21: beginRun() never blocks forever on the timing mutex.  The only
\* holder it ever waits for is the watchdog inside the scope of a successful
\* probe, which the watchdog leaves by itself at the end of the iteration:
\* whenever the loop thread is about to lock the mutex and finds it held,
\* the watchdog holds it and is at the point of releasing it.
C21_BeginRunNeverStuck ==
    (Alive /\ lpc = "begin" /\ timedMutex # "free") =>
        (timedMutex = "wd" /\ wpc = "holding")

\* C22: while no notifier has been invoked a second time, the head's current
\* case is the case of the active runnable from that runnable's beginRun()
\* until its completion signal, and throughout the done()/fail() call up to
\* the point where the call moves the head on; so the report line and the
\* counter update go to the case in the active slot, whose body has run.
AtMostOnceEach == dupSignals = 0

ActiveCase(c) == IsCase(c) /\ running = c /\ BracketOpen /\ signalled[c] = 0

Attributing(th) == sig[th].pc \in {"schedule", "report", "advance"}

C22_CurrentIsActive ==
    AtMostOnceEach =>
        /\ \A c \in Cases : ActiveCase(c) => currentCase = c
        /\ \A th \in SigThreads : Attributing(th) =>
              /\ IsCase(running) /\ HasRun(running)
              /\ currentCase = running

C22_Witness ==
    /\ AtMostOnceEach
    /\ sig["ext"].pc = "report"
    /\ running = MaxCases /\ currentCase = MaxCases
    /\ Len(CaseLines) = MaxCases - 1
====
